---- MODULE Spec2Model ----
(***************************************************************************)
(* Model of the triage-and-aggregate core of mondrianutils:                *)
(*   variant_calling/utils.py : generate_intervals, split_interval         *)
(*   alignment/utils.py       : get_control_files, get_contaminated_files, *)
(*                              get_pass_files, add_contamination_status,  *)
(*                              merge_cells                                *)
(* Each entry point has its own specification (SpecIntervals, SpecSplit,   *)
(* SpecClassify, SpecContam, SpecMerge, SpecBams, SpecMetadata,            *)
(* SpecValidate); the variables of the other entry points stay at their    *)
(* idle values.                                                            *)
(***************************************************************************)
EXTENDS Integers, Sequences, FiniteSets, TLC

VARIABLES
    pc,            \* position of the running entry point
    ref,           \* generate_intervals: zip(names, lengths) of the reference
    chromosomes,   \* generate_intervals: requested target names
    size,          \* generate_intervals: chunk size
    printed,       \* lines printed by generate_intervals / split_interval
    interval,      \* split_interval: the parsed input interval
    num_splits,    \* split_interval: requested number of pieces
    cell_ids,      \* classifier: list of cell ids, parallel to infiles
    infiles,       \* classifier: list of per-cell artifacts
    metrics,       \* classifier: metrics table, one row per cell_id
    groups,        \* classifier: outcome of each of the three selectors
    table,         \* add_contamination_status: the input table, by column
    reference,     \* add_contamination_status: the primary reference organism
    contam,        \* add_contamination_status: its outcome
    group,         \* merge_cells: infiles, the dict cell id -> artifact of one group
    margs,         \* merge_cells: tempdir, ncores, outfile, reference, empty_bam_content
    fs,            \* merge_cells: the files written so far, by path
    calls,         \* merge_cells: the external steps run so far, in order
    failed,        \* merge_cells: the step whose error reached the caller
    exits,         \* merge_cells: outcome of each external step of calls
    stage,         \* generate_bams: the group being merged
    meta_cells,    \* generate_metadata: data['meta']['cells'] of the input, in order
    meta_out,      \* generate_metadata: the meta block written
    meta_data,     \* input_validation: the 'meta' section of the metadata yaml
    input_data,    \* input_validation: the flowcell and lane of each input lane
    validation     \* input_validation: its outcome

partitionVars == <<ref, chromosomes, size, interval, num_splits>>
classifyVars == <<cell_ids, infiles, metrics, groups>>

contamVars == <<table, reference, contam>>

mergeVars == <<group, margs, fs, calls, failed, exits, stage>>
metaVars == <<meta_cells, meta_out>>
validateVars == <<meta_data, input_data, validation>>

ivars == <<pc, printed, partitionVars, classifyVars, contamVars, mergeVars, metaVars, validateVars>>

----------------------------------------------------------------------------
(* Bounds *)
MaxLength == 7
MaxSize == 4
MaxRefSeqs == 2
MaxStart == 2
MaxEnd == 100
MaxSplits == 4
MaxCells == 3
MaxReads == 1
MaxMultihit == 1
MaxTotalUnits == 3
MaxCores == 2
MaxMetaCells == 3
MaxBamCells == 2
MaxValidateCells == 2

Names == {"chr1", "chr2"}
AbsentName == "chrUn"

Min(a, b) == IF a <= b THEN a ELSE b

\* int(x / y) for x >= 0, y > 0: the float quotient truncated
IntDiv(x, y) == x \div y

\* math.ceil(float(x) / y) for y > 0, any sign of x
CeilDiv(x, y) == -((-x) \div y)

----------------------------------------------------------------------------
(* Idle values of the variables an entry point does not use *)

NotCalled == [status |-> "not_called", error |-> "none", files |-> <<>>]

IdlePartition ==
    /\ ref = <<>>
    /\ chromosomes = {}
    /\ size = 1
    /\ interval = [chrom |-> "chr2", start |-> 1, end |-> 1]
    /\ num_splits = 1
    /\ printed = <<>>

IdleClassify ==
    /\ cell_ids = <<>>
    /\ infiles = <<>>
    /\ metrics = <<>>
    /\ groups = [control |-> NotCalled, contaminated |-> NotCalled, pass |-> NotCalled]

ContamNotCalled ==
    [status |-> "not_called", error |-> "none", csv |-> FALSE, yaml |-> FALSE,
     is_contaminated |-> <<>>]

IdleContam ==
    /\ table = <<>>
    /\ reference = "grch37"
    /\ contam = ContamNotCalled

IdleMerge ==
    /\ group = <<>>
    /\ margs = [tempdir |-> <<"tmp">>, ncores |-> 1, outfile |-> <<"out.bam">>,
                reference |-> "ref.fa", empty_bam_content |-> <<>>,
                merged_header |-> <<>>]
    /\ fs = <<>>
    /\ calls = <<>>
    /\ failed = "none"
    /\ exits = <<>>
    /\ stage = "none"

MetaNotWritten ==
    [written |-> FALSE, sample_ids |-> <<>>, library_ids |-> <<>>, cell_ids |-> <<>>]

NotValidated == [status |-> "not_called", error |-> "none"]

IdleValidate ==
    /\ meta_data = [cells |-> <<>>, lanes |-> <<>>]
    /\ input_data = {}
    /\ validation = NotValidated

IdleMeta ==
    /\ meta_cells = <<>>
    /\ meta_out = MetaNotWritten

----------------------------------------------------------------------------
(* generate_intervals *)

\* the interval printed by iteration i of the inner loop
ChunkNoMin(name, length, sz, i) ==
    [name |-> name, start |-> (i * sz) + 1, end |-> (i + 1) * sz]

Chunk(name, length, sz, i) ==
    [name |-> name, start |-> (i * sz) + 1, end |-> Min((i + 1) * sz, length)]

\* range(int((length / size) + 1))
NumIterations(length, sz) == IntDiv(length, sz) + 1

\* the inner loop for one sequence
SeqIntervals(name, length, sz) ==
    [k \in 1..NumIterations(length, sz) |-> Chunk(name, length, sz, k - 1)]

\* the outer loop over zip(names, lengths), skipping names not requested
RECURSIVE AllIntervalsReversed(_, _, _)
AllIntervalsReversed(r, chroms, sz) ==
    IF r = <<>> THEN <<>>
    ELSE LET h == Head(r)
             rest == AllIntervalsReversed(Tail(r), chroms, sz)
         IN IF h.name \notin chroms THEN rest
            ELSE rest \o SeqIntervals(h.name, h.length, sz)

RECURSIVE AllIntervals(_, _, _)
AllIntervals(r, chroms, sz) ==
    IF r = <<>> THEN <<>>
    ELSE LET h == Head(r)
             rest == AllIntervals(Tail(r), chroms, sz)
         IN IF h.name \notin chroms THEN rest
            ELSE SeqIntervals(h.name, h.length, sz) \o rest

Lengths == 0..MaxLength
Sizes == 1..MaxSize

RefEntries == [name : Names, length : Lengths]

\* references: up to MaxRefSeqs sequences with distinct names
References ==
    UNION {{r \in [1..n -> RefEntries] :
              \A i, j \in 1..n : i # j => r[i].name # r[j].name} : n \in 0..MaxRefSeqs}

GenerateIntervals ==
    /\ pc = "generate_intervals"
    /\ printed' = AllIntervals(ref, chromosomes, size)
    /\ pc' = "intervals_done"
    /\ UNCHANGED <<partitionVars, classifyVars, contamVars, mergeVars, metaVars, validateVars>>

InitIntervals ==
    /\ pc = "generate_intervals"
    /\ ref \in References
    /\ chromosomes \in SUBSET (Names \cup {AbsentName})
    /\ size \in Sizes
    /\ printed = <<>>
    /\ interval = [chrom |-> "chr2", start |-> 1, end |-> 1]
    /\ num_splits = 1
    /\ IdleClassify
    /\ IdleContam
    /\ IdleMerge
    /\ IdleMeta
    /\ IdleValidate

NextIntervals == GenerateIntervals

SpecIntervals == InitIntervals /\ [][NextIntervals]_ivars

----------------------------------------------------------------------------
(* split_interval *)

\* intervalsize = int(math.ceil(float(end - start) / num_splits))
IntervalSizeFloor(start, end, n) == (end - start) \div n

IntervalSize(start, end, n) == CeilDiv(end - start, n)

\* currpos after one iteration of the loop
NextCurrposNoGap(interval_end) == interval_end

NextCurrpos(interval_end) == interval_end + 1

\* the loop "for i in range(num_splits)" from iteration i on, with its break
RECURSIVE SplitLoop(_, _, _, _, _, _)
SplitLoop(chrom, currpos, end, intervalsize, i, n) ==
    IF i >= n THEN <<>>
    ELSE LET interval_start == currpos
             interval_end == currpos + intervalsize
         IN IF interval_end >= end
            THEN <<[name |-> chrom, start |-> interval_start, end |-> end]>>
            ELSE <<[name |-> chrom, start |-> interval_start, end |-> interval_end]>>
                 \o SplitLoop(chrom, NextCurrpos(interval_end), end, intervalsize, i + 1, n)

SplitPieces(iv, n) ==
    SplitLoop(iv.chrom, iv.start, iv.end, IntervalSize(iv.start, iv.end, n), 0, n)

SplitInterval ==
    /\ pc = "split_interval"
    /\ printed' = SplitPieces(interval, num_splits)
    /\ pc' = "split_done"
    /\ UNCHANGED <<partitionVars, classifyVars, contamVars, mergeVars, metaVars, validateVars>>

InitSplit ==
    /\ pc = "split_interval"
    /\ interval \in [chrom : {"chr2"}, start : 0..MaxStart, end : 0..MaxEnd]
    /\ num_splits \in 1..MaxSplits
    /\ printed = <<>>
    /\ ref = <<>>
    /\ chromosomes = {}
    /\ size = 1
    /\ IdleClassify
    /\ IdleContam
    /\ IdleMerge
    /\ IdleMeta
    /\ IdleValidate

NextSplit == SplitInterval

SpecSplit == InitSplit /\ [][NextSplit]_ivars

----------------------------------------------------------------------------
(* Cell classifier: get_pass_files, get_control_files, get_contaminated_files *)

CellIds == {"A", "B", "C"}

Flags == [is_control : BOOLEAN, is_contaminated : BOOLEAN]

\* metrics tables: one row of flags per cell_id, for any set of cell ids
MetricsTables == UNION {[M -> Flags] : M \in SUBSET CellIds}

Range(f) == {f[i] : i \in DOMAIN f}

\* a dict is the sequence of its items in insertion order, keys distinct
Keys(d) == {d[i].cell : i \in DOMAIN d}

\* d[k] = v: an existing key keeps its place and takes the new value
DictPut(d, k, v) ==
    IF k \in Keys(d)
    THEN [i \in DOMAIN d |-> IF d[i].cell = k THEN [cell |-> k, infile |-> v] ELSE d[i]]
    ELSE Append(d, [cell |-> k, infile |-> v])

\* zip(cell_ids, infiles): stops at the shorter list
Zip(cells, files) ==
    [i \in 1..Min(Len(cells), Len(files)) |-> [cell |-> cells[i], infile |-> files[i]]]

\* {cell: infile for cell, infile in items if cell in keep}
RECURSIVE DictOf(_, _)
DictOf(items, keep) ==
    IF items = <<>> THEN <<>>
    ELSE LET last == items[Len(items)]
             d == DictOf(SubSeq(items, 1, Len(items) - 1), keep)
         IN IF last.cell \in keep THEN DictPut(d, last.cell, last.infile) ELSE d

\* set(list(metrics[metrics[flag]]['cell_id']))
ControlCells(m) == {c \in DOMAIN m : m[c].is_control}
ContaminatedCells(m) == {c \in DOMAIN m : m[c].is_contaminated}

\* assert set(cell_ids) == set(list(metrics['cell_id']))
CellSetsSubset(cells, m) == Range(cells) \subseteq DOMAIN m

CellSetsMatch(cells, m) == Range(cells) = DOMAIN m

Returned(d) == [status |-> "returned", error |-> "none", files |-> d]
Raised(e) == [status |-> "raised", error |-> e, files |-> <<>>]

ControlFiles(files, cells, m) ==
    DictOf(Zip(cells, files), ControlCells(m))

ContaminatedFilesKeepControl(files, cells, m) ==
    DictOf(Zip(cells, files), ContaminatedCells(m))

ContaminatedFiles(files, cells, m) ==
    LET not_control == DictOf(Zip(cells, files), CellIds \ ControlCells(m))
    IN DictOf(not_control, ContaminatedCells(m))

PassFilesKeepControl(files, cells, m) ==
    DictOf(Zip(cells, files), CellIds \ ContaminatedCells(m))

PassFiles(files, cells, m) ==
    LET not_contaminated == DictOf(Zip(cells, files), CellIds \ ContaminatedCells(m))
    IN DictOf(not_contaminated, CellIds \ ControlCells(m))

GetControlFiles ==
    /\ pc = "classify"
    /\ groups.control.status = "not_called"
    /\ groups' = [groups EXCEPT !.control =
                    IF CellSetsMatch(cell_ids, metrics)
                    THEN Returned(ControlFiles(infiles, cell_ids, metrics))
                    ELSE Raised("AssertionError")]
    /\ UNCHANGED <<pc, printed, partitionVars, cell_ids, infiles, metrics, contamVars, mergeVars, metaVars, validateVars>>

GetContaminatedFiles ==
    /\ pc = "classify"
    /\ groups.contaminated.status = "not_called"
    /\ groups' = [groups EXCEPT !.contaminated =
                    IF CellSetsMatch(cell_ids, metrics)
                    THEN Returned(ContaminatedFiles(infiles, cell_ids, metrics))
                    ELSE Raised("AssertionError")]
    /\ UNCHANGED <<pc, printed, partitionVars, cell_ids, infiles, metrics, contamVars, mergeVars, metaVars, validateVars>>

GetPassFiles ==
    /\ pc = "classify"
    /\ groups.pass.status = "not_called"
    /\ groups' = [groups EXCEPT !.pass =
                    IF CellSetsMatch(cell_ids, metrics)
                    THEN Returned(PassFiles(infiles, cell_ids, metrics))
                    ELSE Raised("AssertionError")]
    /\ UNCHANGED <<pc, printed, partitionVars, cell_ids, infiles, metrics, contamVars, mergeVars, metaVars, validateVars>>

CellIdLists == UNION {[1..n -> CellIds] : n \in 0..MaxCells}

InitClassify ==
    /\ pc = "classify"
    /\ cell_ids \in CellIdLists
    /\ \E n \in 0..MaxCells : infiles = [i \in 1..n |-> i]
    /\ metrics \in MetricsTables
    /\ groups = [control |-> NotCalled, contaminated |-> NotCalled, pass |-> NotCalled]
    /\ IdlePartition
    /\ IdleContam
    /\ IdleMerge
    /\ IdleMeta
    /\ IdleValidate

NextClassify == GetControlFiles \/ GetContaminatedFiles \/ GetPassFiles

SpecClassify == InitClassify /\ [][NextClassify]_ivars

----------------------------------------------------------------------------
(* Contamination detector: add_contamination_status *)

\* threshold=0.05, as the fraction ThresholdNum / ThresholdDen
ThresholdNum == 1
ThresholdDen == 20

\* dtypes(fastqscreen_genomes=['grch37', 'mm10', 'salmon'])
Organisms == {"grch37", "mm10", "salmon"}

ContamCells == {"A", "B"}

\* a column name is the list of its '_'-separated parts
CountCol(o) == <<"fastqscreen", o>>
MultihitCol(o) == <<"fastqscreen", o, "multihit">>
TotalReadsCol == <<"fastqscreen", "total", "reads">>
NohitCol == <<"fastqscreen", "nohit">>

\* [v.split('_')[1] for v in columns if v.startswith('fastqscreen_')], as a
\* set, without 'nohit' and 'total'
OrganismsOf(columns) ==
    {col[2] : col \in {c \in columns : c[1] = "fastqscreen" /\ Len(c) >= 2}}
        \ {"nohit", "total"}

\* if reference not in organisms: raise Exception(...)
ReferenceMissingNever(organisms, refname) == FALSE

ReferenceMissing(organisms, refname) == refname \notin organisms

\* alts = [col for col in organisms if not col == reference]
AltsWithReference(organisms, refname) == organisms

Alts(organisms, refname) == organisms \ {refname}

\* _get_col_data: the column of mapped minus multihit counts
GetColData(df, organism) ==
    [c \in ContamCells |-> df[CountCol(organism)][c] - df[MultihitCol(organism)][c]]

\* x / y of two integer columns, element by element: a zero denominator
\* gives inf, -inf or nan and no error
Divide(x, y) ==
    IF y # 0 THEN [kind |-> "finite", num |-> x, den |-> y]
    ELSE IF x > 0 THEN [kind |-> "inf", num |-> 1, den |-> 0]
    ELSE IF x < 0 THEN [kind |-> "-inf", num |-> -1, den |-> 0]
    ELSE [kind |-> "nan", num |-> 0, den |-> 0]

\* perc_alt > threshold for one element; counts are far below 2^53, so the
\* float comparison agrees with the comparison of the fractions
GreaterOrEqual(q, num, den) ==
    CASE q.kind = "inf" -> TRUE
      [] q.kind = "finite" -> q.num * den >= num * q.den
      [] OTHER -> FALSE

GreaterThan(q, num, den) ==
    CASE q.kind = "inf" -> TRUE
      [] q.kind = "finite" -> q.num * den > num * q.den
      [] OTHER -> FALSE

\* the loop "for altcol in alts", starting from the column flags
RECURSIVE FlagLoop(_, _, _)
FlagLoop(df, alts, flags) ==
    IF alts = {} THEN flags
    ELSE LET altcol == CHOOSE o \in alts : TRUE
             unique == GetColData(df, altcol)
             perc_alt == [c \in ContamCells |-> Divide(unique[c], df[TotalReadsCol][c])]
             flagged == [c \in ContamCells |->
                           IF GreaterThan(perc_alt[c], ThresholdNum, ThresholdDen)
                           THEN TRUE ELSE flags[c]]
         IN FlagLoop(df, alts \ {altcol}, flagged)

AddContaminationStatus ==
    /\ pc = "add_contamination_status"
    /\ LET organisms == OrganismsOf(DOMAIN table)
       IN IF ReferenceMissing(organisms, reference)
          THEN contam' = [ContamNotCalled EXCEPT !.status = "raised", !.error = "Exception"]
          ELSE contam' = [status |-> "returned", error |-> "none",
                          csv |-> TRUE, yaml |-> TRUE,
                          is_contaminated |->
                              FlagLoop(table, Alts(organisms, reference),
                                       [c \in ContamCells |-> FALSE])]
    /\ pc' = "contamination_done"
    /\ UNCHANGED <<printed, partitionVars, classifyVars, table, reference, mergeVars, metaVars, validateVars>>

\* input values: counts up to MaxReads / MaxMultihit for the other organisms,
\* none or more than that for the reference; totals in units of half the
\* threshold's denominator, so that with one uniquely mapped read a ratio
\* above, equal to and below the threshold occurs
ReadCounts == [mapped : 0..MaxReads, multihit : 0..MaxMultihit]
ReferenceCounts == [mapped : {0, MaxReads + 1}, multihit : {0}]
TotalReads == {u * (ThresholdDen \div 2) : u \in 0..MaxTotalUnits}

\* the table with the count columns of the organisms in present
BuildTable(present, counts, totals) ==
    LET columns == {CountCol(o) : o \in present} \cup {MultihitCol(o) : o \in present}
                       \cup {TotalReadsCol, NohitCol}
    IN [col \in columns |->
          IF col = TotalReadsCol THEN totals
          ELSE IF col = NohitCol THEN [c \in ContamCells |-> 0]
          ELSE IF Len(col) = 2 THEN [c \in ContamCells |-> counts[col[2]][c].mapped]
          ELSE [c \in ContamCells |-> counts[col[2]][c].multihit]]

InitContam ==
    /\ pc = "add_contamination_status"
    /\ reference = "grch37"
    /\ \E present \in SUBSET Organisms :
       \E altcounts \in [present \ {reference} -> [ContamCells -> ReadCounts]] :
       \E refcounts \in [present \cap {reference} -> [ContamCells -> ReferenceCounts]] :
       \E totals \in [ContamCells -> TotalReads] :
          table = BuildTable(present,
                             [o \in present |-> IF o = reference THEN refcounts[o]
                                                ELSE altcounts[o]],
                             totals)
    /\ contam = ContamNotCalled
    /\ IdlePartition
    /\ IdleClassify
    /\ IdleMerge
    /\ IdleMeta
    /\ IdleValidate

NextContam == AddContaminationStatus

SpecContam == InitContam /\ [][NextContam]_ivars

----------------------------------------------------------------------------
(* Group merger: merge_cells *)

\* a path is the list of its parts: os.path.join(dir, name) and infile + ext
PathJoin(dir, name) == Append(dir, name)
PathExt(path, ext) == Append(path, ext)

\* a file is its header lines and its alignment records (one per artifact)
File(kind, header, records) == [kind |-> kind, header |-> header, records |-> records]

Exists(files, path) == path \in DOMAIN files

\* files with path (re)written to content
WriteFile(files, path, content) ==
    [q \in DOMAIN files \cup {path} |-> IF q = path THEN content ELSE files[q]]

\* list(infiles.values()) and infiles.keys(), in dict order
Values(d) == [i \in DOMAIN d |-> d[i].infile]
KeyList(d) == [i \in DOMAIN d |-> d[i].cell]

\* '@CO\tCB:{}\n'.format(cell)
CommentLine(cell) == <<"@CO", "CB", cell>>

\* if len(infiles.values()) == 0
IsEmptyNever(d) == FALSE

IsEmpty(d) == Len(Values(d)) = 0

FinalMergeOutput == PathJoin(margs.tempdir, "merged_all.bam")
NewHeader == PathJoin(margs.tempdir, "header.sam")

\* pysam.AlignmentFile(outfile, "wb", header=empty_bam_content).close()
WriteEmptyBam ==
    /\ pc = "merge_cells"
    /\ IsEmpty(group)
    /\ fs' = WriteFile(fs, margs.outfile, File("bam", margs.empty_bam_content, <<>>))
    /\ calls' = Append(calls, "pysam_write")
    /\ exits' = Append(exits, "ok")
    /\ pc' = "samtools_index"
    /\ UNCHANGED <<printed, partitionVars, classifyVars, contamVars, group, margs, failed, stage, metaVars, validateVars>>

Reverse(l) == [i \in DOMAIN l |-> l[Len(l) + 1 - i]]

\* helpers.merge_bams(list(infiles.values()), final_merge_output, tempdir, ncores)
MergeBamsByCores ==
    /\ pc = "merge_cells"
    /\ ~IsEmpty(group)
    /\ calls' = Append(calls, "merge_bams")
    /\ \/ /\ fs' = WriteFile(fs, FinalMergeOutput,
                            File("bam", margs.merged_header,
                                 IF margs.ncores > 1 THEN Reverse(Values(group))
                                 ELSE Values(group)))
          /\ exits' = Append(exits, "ok")
          /\ pc' = "get_new_header"
          /\ UNCHANGED failed
       \/ /\ pc' = "merge_raised"
          /\ exits' = Append(exits, "failed")
          /\ failed' = "merge_bams"
          /\ UNCHANGED fs
    /\ UNCHANGED <<printed, partitionVars, classifyVars, contamVars, group, margs, stage, metaVars, validateVars>>

\* helpers.merge_bams(list(infiles.values()), final_merge_output, tempdir, ncores):
\* concatenates the artifacts in the order given, whatever ncores is
MergeBams ==
    /\ pc = "merge_cells"
    /\ ~IsEmpty(group)
    /\ calls' = Append(calls, "merge_bams")
    /\ \/ /\ fs' = WriteFile(fs, FinalMergeOutput,
                            File("bam", margs.merged_header, Values(group)))
          /\ exits' = Append(exits, "ok")
          /\ pc' = "get_new_header"
          /\ UNCHANGED failed
       \/ /\ pc' = "merge_raised"
          /\ exits' = Append(exits, "failed")
          /\ failed' = "merge_bams"
          /\ UNCHANGED fs
    /\ UNCHANGED <<printed, partitionVars, classifyVars, contamVars, group, margs, stage, metaVars, validateVars>>

\* the lines get_new_header appends to the header file
RECURSIVE AppendComments(_, _)
AppendComments(header, cells) ==
    IF cells = <<>> THEN header
    ELSE AppendComments(Append(header, CommentLine(Head(cells))), Tail(cells))

\* get_new_header(infiles.keys(), final_merge_output, new_header): the exit
\* status of samtools view is not looked at; the file is opened for append
GetNewHeader ==
    /\ pc = "get_new_header"
    /\ calls' = Append(calls, "samtools_view")
    /\ \E ok \in BOOLEAN :
          LET extracted == IF ok /\ Exists(fs, FinalMergeOutput)
                           THEN fs[FinalMergeOutput].header
                           ELSE IF Exists(fs, NewHeader) THEN fs[NewHeader].header
                           ELSE <<>>
          IN /\ fs' = WriteFile(fs, NewHeader,
                                File("sam", AppendComments(extracted, KeyList(group)), <<>>))
             /\ exits' = Append(exits, IF ok THEN "ok" ELSE "failed")
    /\ pc' = "reheader"
    /\ UNCHANGED <<printed, partitionVars, classifyVars, contamVars, group, margs, failed, stage, metaVars, validateVars>>

\* reheader(final_merge_output, new_header, outfile): the exit status of
\* picard ReplaceSamHeader is not looked at
Reheader ==
    /\ pc = "reheader"
    /\ calls' = Append(calls, "picard_reheader")
    /\ \/ /\ Exists(fs, FinalMergeOutput)
          /\ Exists(fs, NewHeader)
          /\ fs' = WriteFile(fs, margs.outfile,
                            File("bam", fs[NewHeader].header, fs[FinalMergeOutput].records))
          /\ exits' = Append(exits, "ok")
       \/ /\ exits' = Append(exits, "failed")
          /\ UNCHANGED fs
    /\ pc' = "samtools_index"
    /\ UNCHANGED <<printed, partitionVars, classifyVars, contamVars, group, margs, failed, stage, metaVars, validateVars>>

\* helpers.run_cmd(cmd): runs the command and raises when it fails
RunCmd(name, next_pc, can_succeed, out_path, out_file) ==
    /\ calls' = Append(calls, name)
    /\ \/ /\ can_succeed
          /\ fs' = WriteFile(fs, out_path, out_file)
          /\ exits' = Append(exits, "ok")
          /\ pc' = next_pc
          /\ UNCHANGED failed
       \/ /\ pc' = "merge_raised"
          /\ exits' = Append(exits, "failed")
          /\ failed' = name
          /\ UNCHANGED fs

\* files without path
RemoveFile(files, path) == [q \in DOMAIN files \ {path} |-> files[q]]

\* samtools_index(outfile)
SamtoolsIndexCleanup ==
    /\ pc = "samtools_index"
    /\ calls' = Append(calls, "samtools_index")
    /\ \/ /\ Exists(fs, margs.outfile)
          /\ fs' = WriteFile(fs, PathExt(margs.outfile, ".bai"), File("bai", <<>>, <<>>))
          /\ exits' = Append(exits, "ok")
          /\ pc' = "igvtools_count"
          /\ UNCHANGED failed
       \/ /\ pc' = "merge_raised"
          /\ exits' = Append(exits, "failed")
          /\ failed' = "samtools_index"
          /\ fs' = RemoveFile(fs, margs.outfile)
    /\ UNCHANGED <<printed, partitionVars, classifyVars, contamVars, group, margs, stage, metaVars, validateVars>>

\* samtools_index(infile): helpers.run_cmd(['samtools', 'index', infile])
SamtoolsIndex ==
    /\ pc = "samtools_index"
    /\ RunCmd("samtools_index", "igvtools_count", Exists(fs, margs.outfile),
              PathExt(margs.outfile, ".bai"), File("bai", <<>>, <<>>))
    /\ UNCHANGED <<printed, partitionVars, classifyVars, contamVars, group, margs, stage, metaVars, validateVars>>

\* igvtools_count(outfile, reference)
IgvtoolsCount ==
    /\ pc = "igvtools_count"
    /\ RunCmd("igvtools_count", "merge_done", Exists(fs, margs.outfile),
              PathExt(margs.outfile, ".tdf"), File("tdf", <<>>, <<>>))
    /\ UNCHANGED <<printed, partitionVars, classifyVars, contamVars, group, margs, stage, metaVars, validateVars>>

Headers == {<<<<"@HD">>>>, <<<<"@HD">>, <<"@SQ">>>>}

\* groups: dicts of up to MaxCells distinct cells, each with an artifact
Groups ==
    UNION {{d \in [1..n -> [cell : CellIds, infile : 1..MaxCells]] :
              \A i, j \in 1..n : i # j => d[i].cell # d[j].cell} : n \in 0..MaxCells}

InitMerge ==
    /\ pc = "merge_cells"
    /\ group \in Groups
    /\ margs \in [tempdir : {<<"tmp", "pass">>}, ncores : 1..MaxCores,
                  outfile : {<<"pass.bam">>}, reference : {"ref.fa"},
                  empty_bam_content : Headers, merged_header : Headers]
    /\ fs = <<>>
    /\ calls = <<>>
    /\ failed = "none"
    /\ exits = <<>>
    /\ stage = "none"
    /\ IdlePartition
    /\ IdleClassify
    /\ IdleContam
    /\ IdleMeta
    /\ IdleValidate

NextMerge ==
    \/ WriteEmptyBam
    \/ MergeBams
    \/ GetNewHeader
    \/ Reheader
    \/ SamtoolsIndex
    \/ IgvtoolsCount

SpecMerge == InitMerge /\ [][NextMerge]_ivars

----------------------------------------------------------------------------
(* Pipeline: generate_bams *)

\* the artifact of a cell, and the arguments of the run
BamOf(cell) == <<"in", cell>>
RunTempdir == <<"tmp">>
Outfile(st) ==
    CASE st = "control" -> <<"control.bam">>
      [] st = "contaminated" -> <<"contaminated.bam">>
      [] st = "pass" -> <<"pass.bam">>

\* the group merged after st; "none" after the last one
NextStage(st) ==
    CASE st = "control" -> "contaminated"
      [] st = "contaminated" -> "pass"
      [] st = "pass" -> "none"

\* if 'CO' in header: del header['CO']
StripComments(header) ==
    LET NotComment(line) == line[1] # "@CO"
    IN SelectSeq(header, NotComment)

\* helpers.makedirs(path)
Makedirs(files, path) ==
    IF Exists(files, path) THEN files ELSE WriteFile(files, path, File("dir", <<>>, <<>>))

\* header = get_bam_header(infiles[0])
GetBamHeader ==
    /\ pc = "generate_bams"
    /\ IF infiles = <<>>
       THEN /\ pc' = "bams_raised"
            /\ failed' = "IndexError"
            /\ UNCHANGED <<margs, stage>>
       ELSE /\ margs' = [margs EXCEPT
                           !.empty_bam_content = StripComments(fs[infiles[1]].header)]
            /\ stage' = "control"
            /\ pc' = "select"
            /\ UNCHANGED failed
    /\ UNCHANGED <<printed, partitionVars, classifyVars, contamVars, group, fs, calls, exits, metaVars, validateVars>>

\* <group>_bams = get_<group>_files(infiles, cell_ids, metrics);
\* <group>_tempdir = os.path.join(tempdir, '<group>'); helpers.makedirs(<group>_tempdir);
\* merge_cells(<group>_bams, <group>_tempdir, ncores, <group>_outfile, reference, header)
EnterMergeSharedTempdir(st, selected) ==
    IF CellSetsMatch(cell_ids, metrics)
    THEN /\ groups' = [groups EXCEPT ![st] = Returned(selected)]
         /\ group' = selected
         /\ margs' = [margs EXCEPT !.tempdir = PathJoin(RunTempdir, "control"),
                                   !.outfile = Outfile(st)]
         /\ fs' = Makedirs(fs, PathJoin(RunTempdir, "control"))
         /\ pc' = "merge_cells"
         /\ UNCHANGED failed
    ELSE /\ groups' = [groups EXCEPT ![st] = Raised("AssertionError")]
         /\ pc' = "bams_raised"
         /\ failed' = "AssertionError"
         /\ UNCHANGED <<group, margs, fs>>

EnterMerge(st, selected) ==
    IF CellSetsMatch(cell_ids, metrics)
    THEN /\ groups' = [groups EXCEPT ![st] = Returned(selected)]
         /\ group' = selected
         /\ margs' = [margs EXCEPT !.tempdir = PathJoin(RunTempdir, st),
                                   !.outfile = Outfile(st)]
         /\ fs' = Makedirs(fs, PathJoin(RunTempdir, st))
         /\ pc' = "merge_cells"
         /\ UNCHANGED failed
    ELSE /\ groups' = [groups EXCEPT ![st] = Raised("AssertionError")]
         /\ pc' = "bams_raised"
         /\ failed' = "AssertionError"
         /\ UNCHANGED <<group, margs, fs>>

SelectControl ==
    /\ pc = "select"
    /\ stage = "control"
    /\ EnterMerge("control", ControlFiles(infiles, cell_ids, metrics))
    /\ UNCHANGED <<printed, partitionVars, cell_ids, infiles, metrics, contamVars, calls, exits, stage, metaVars, validateVars>>

SelectContaminated ==
    /\ pc = "select"
    /\ stage = "contaminated"
    /\ EnterMerge("contaminated", ContaminatedFiles(infiles, cell_ids, metrics))
    /\ UNCHANGED <<printed, partitionVars, cell_ids, infiles, metrics, contamVars, calls, exits, stage, metaVars, validateVars>>

SelectPass ==
    /\ pc = "select"
    /\ stage = "pass"
    /\ EnterMerge("pass", PassFiles(infiles, cell_ids, metrics))
    /\ UNCHANGED <<printed, partitionVars, cell_ids, infiles, metrics, contamVars, calls, exits, stage, metaVars, validateVars>>

\* merge_cells returns into generate_bams: on to the next group, or the end
MergeReturn ==
    /\ pc = "merge_done"
    /\ stage # "none"
    /\ pc' = IF NextStage(stage) = "none" THEN "bams_done" ELSE "select"
    /\ stage' = IF NextStage(stage) = "none" THEN stage ELSE NextStage(stage)
    /\ UNCHANGED <<printed, partitionVars, classifyVars, contamVars, group, margs, fs, calls, failed, exits, metaVars, validateVars>>

\* lists of up to MaxBamCells distinct cells
BamCellLists ==
    UNION {{l \in [1..n -> CellIds] : \A i, j \in 1..n : i # j => l[i] # l[j]} :
              n \in 0..MaxBamCells}

\* headers of the input artifacts, with and without a comment line
InputHeaders == {<<<<"@HD">>>>, <<<<"@HD">>, <<"@CO", "CB", "old">>>>}

InitBams ==
    /\ pc = "generate_bams"
    /\ cell_ids \in BamCellLists
    /\ infiles = [i \in DOMAIN cell_ids |-> BamOf(cell_ids[i])]
    /\ metrics \in MetricsTables
    /\ groups = [control |-> NotCalled, contaminated |-> NotCalled, pass |-> NotCalled]
    /\ group = <<>>
    /\ margs \in [tempdir : {RunTempdir}, ncores : 1..MaxCores,
                  outfile : {<<"out.bam">>}, reference : {"ref.fa"},
                  empty_bam_content : {<<>>}, merged_header : {<<<<"@HD">>>>}]
    /\ \E h \in InputHeaders :
          fs = [path \in Range(infiles) |-> File("bam", h, <<path>>)]
    /\ calls = <<>>
    /\ failed = "none"
    /\ exits = <<>>
    /\ stage = "none"
    /\ IdlePartition
    /\ IdleContam
    /\ IdleMeta
    /\ IdleValidate

NextBams ==
    \/ GetBamHeader
    \/ SelectControl
    \/ SelectContaminated
    \/ SelectPass
    \/ WriteEmptyBam
    \/ MergeBams
    \/ GetNewHeader
    \/ Reheader
    \/ SamtoolsIndex
    \/ IgvtoolsCount
    \/ MergeReturn

SpecBams == InitBams /\ [][NextBams]_ivars

----------------------------------------------------------------------------
(* Metadata assembler: the meta block of generate_metadata *)

\* identifiers are strings, written as the lists of their character codes:
\* "A1", "A10", "A2", "B1"; "S1", "S2"; "L1", "L2"
MetaCellIds == {<<65, 49>>, <<65, 49, 48>>, <<65, 50>>, <<66, 49>>}
SampleIds == {<<83, 49>>, <<83, 50>>}
LibraryIds == {<<76, 49>>, <<76, 50>>}

\* a < b for two strings, as Python compares them: by the first differing
\* character, a proper prefix first
StrLess(a, b) ==
    \E k \in 1..(Min(Len(a), Len(b)) + 1) :
        /\ \A i \in 1..(k - 1) : a[i] = b[i]
        /\ \/ k > Len(a) /\ k <= Len(b)
           \/ k <= Len(a) /\ k <= Len(b) /\ a[k] < b[k]

\* x put into the sorted list l, after the elements that are not greater
RECURSIVE Insert(_, _)
Insert(x, l) ==
    IF l = <<>> THEN <<x>>
    ELSE IF StrLess(x, Head(l)) THEN <<x>> \o l
    ELSE <<Head(l)>> \o Insert(x, Tail(l))

\* sorted(l) for a list
RECURSIVE SortList(_)
SortList(l) ==
    IF l = <<>> THEN <<>>
    ELSE Insert(l[Len(l)], SortList(SubSeq(l, 1, Len(l) - 1)))

\* the orders in which iterating a set can give its elements
Enumerations(S) ==
    {l \in [1..Cardinality(S) -> S] :
        \A i, j \in 1..Cardinality(S) : i # j => l[i] # l[j]}

\* 'cell_ids': sorted(cells)
UnsortedCells(cells) == cells

SortedCells(cells) == SortList(cells)

\* 'sample_ids': sorted(samples), 'library_ids': sorted(libraries), for
\* the set given in its iteration order
UnsortedIds(iterated) == iterated

SortedIds(iterated) == SortList(iterated)

\* the sets filled by the loop over data['meta']['cells']
SamplesOf(cells_in) == {cells_in[i].sample_id : i \in 1..Len(cells_in)}
LibrariesOf(cells_in) == {cells_in[i].library_id : i \in 1..Len(cells_in)}

\* the meta block, for given iteration orders of the two sets
MetaBlock(cells_in, samples_iter, libraries_iter) ==
    LET cells == [i \in 1..Len(cells_in) |-> cells_in[i].cell_id]
    IN [written |-> TRUE,
        sample_ids |-> SortedIds(samples_iter),
        library_ids |-> SortedIds(libraries_iter),
        cell_ids |-> SortedCells(cells)]

GenerateMetadata ==
    /\ pc = "generate_metadata"
    /\ \E samples_iter \in Enumerations(SamplesOf(meta_cells)) :
       \E libraries_iter \in Enumerations(LibrariesOf(meta_cells)) :
          meta_out' = MetaBlock(meta_cells, samples_iter, libraries_iter)
    /\ pc' = "metadata_done"
    /\ UNCHANGED <<printed, partitionVars, classifyVars, contamVars, mergeVars, meta_cells, validateVars>>

\* the cells mapping of the input yaml: distinct keys, in file order
MetaInputs ==
    UNION {{m \in [1..n -> [cell_id : MetaCellIds, sample_id : SampleIds,
                            library_id : LibraryIds]] :
              \A i, j \in 1..n : i # j => m[i].cell_id # m[j].cell_id} : n \in 0..MaxMetaCells}

InitMetadata ==
    /\ pc = "generate_metadata"
    /\ meta_cells \in MetaInputs
    /\ meta_out = MetaNotWritten
    /\ IdlePartition
    /\ IdleClassify
    /\ IdleContam
    /\ IdleMerge
    /\ IdleValidate

NextMetadata == GenerateMetadata

SpecMetadata == InitMetadata /\ [][NextMetadata]_ivars

----------------------------------------------------------------------------
(* Input validation: input_validation *)

\* the fields input_validation requires of every cell, in the order checked
RequiredFields == <<"is_control", "library_id", "sample_id", "pick_met", "condition">>

ValidateSampleIds == {"S1", "S2"}
Flowcells == {"FC1"}
LaneIds == {"L1"}

\* a cell of meta['cells']: at most one required field is absent from it
CellEntries ==
    [absent : {"none"} \cup Range(RequiredFields), is_control : BOOLEAN,
     sample_id : ValidateSampleIds]

\* meta['cells'] of up to MaxValidateCells cells
CellTables ==
    UNION {[D -> CellEntries] :
              D \in {D \in SUBSET CellIds : Cardinality(D) <= MaxValidateCells}}

\* meta['lanes']: flowcell -> lane -> whether 'sequencing_centre' is given
LaneTables == UNION {[F -> UNION {[L -> BOOLEAN] : L \in SUBSET LaneIds}] : F \in SUBSET Flowcells}

\* _check_metadata_required_field(meta_data, field_name): no KeyError
HasField(cells, field_name) == \A k \in DOMAIN cells : cells[k].absent # field_name

\* the first required field some cell lacks, 0 when there is none
FirstMissing(cells) ==
    LET missing == {i \in DOMAIN RequiredFields : ~HasField(cells, RequiredFields[i])}
    IN IF missing = {} THEN 0 ELSE CHOOSE i \in missing : \A j \in missing : i <= j

\* set(v['sample_id'] for v in cells if v['is_control'] == False)
SamplesOfAllCells(cells) == {cells[k].sample_id : k \in DOMAIN cells}

NonControlSamples(cells) ==
    {cells[k].sample_id : k \in {k \in DOMAIN cells : cells[k].is_control = FALSE}}

\* _check_sample_id_uniqueness(meta_data): if not len(non_control_samples) <= 1: raise
SampleIdsUnique(cells) == Cardinality(NonControlSamples(cells)) <= 1

\* _check_lanes_and_flowcells(meta_data, input_data): every flowcell and lane
\* of the inputs is in meta['lanes']
LanesAndFlowcellsKnown(lanes, inputs) ==
    \A lane \in inputs :
        /\ lane.flowcell_id \in DOMAIN lanes
        /\ lane.lane_id \in DOMAIN lanes[lane.flowcell_id]

\* 'sequencing_centre' in lane_data, for every lane of meta['lanes']
SequencingCentresGiven(lanes) ==
    \A flowcell_id \in DOMAIN lanes :
        \A lane_id \in DOMAIN lanes[flowcell_id] : lanes[flowcell_id][lane_id]

ValidationRaised(e) == [status |-> "raised", error |-> e]

InputValidation ==
    /\ pc = "input_validation"
    /\ validation' =
          IF FirstMissing(meta_data.cells) # 0 THEN ValidationRaised("MissingField")
          ELSE IF ~SampleIdsUnique(meta_data.cells)
               THEN ValidationRaised("MultipleSamplesPerRun")
          ELSE IF ~LanesAndFlowcellsKnown(meta_data.lanes, input_data)
               THEN ValidationRaised("MissingField")
          ELSE IF ~SequencingCentresGiven(meta_data.lanes)
               THEN ValidationRaised("MissingField")
          ELSE [status |-> "returned", error |-> "none"]
    /\ pc' = "validation_done"
    /\ UNCHANGED <<printed, partitionVars, classifyVars, contamVars, mergeVars, metaVars,
                   meta_data, input_data>>

InitValidate ==
    /\ pc = "input_validation"
    /\ meta_data \in [cells : CellTables, lanes : LaneTables]
    /\ input_data \in SUBSET [flowcell_id : Flowcells, lane_id : LaneIds]
    /\ validation = NotValidated
    /\ IdlePartition
    /\ IdleClassify
    /\ IdleContam
    /\ IdleMerge
    /\ IdleMeta

NextValidate == InputValidation

SpecValidate == InitValidate /\ [][NextValidate]_ivars

----------------------------------------------------------------------------
(* Claims about generate_intervals (SpecIntervals) *)

\* the lines printed for one sequence name
PrintedFor(name) == SelectSeq(printed, LAMBDA iv : iv.name = name)

\* the reference entries the claims speak about: requested, length >= 1
Targets == {k \in 1..Len(ref) : ref[k].name \in chromosomes /\ ref[k].length >= 1}

\* c is ceil(a / n) for n > 0
IsCeil(c, a, n) == (c - 1) * n < a /\ a <= c * n

\* C1: for every target sequence of length L >= 1 and chunk size C >= 1 the
\* printed intervals start at 1, end at L, each next one starts at the
\* previous end + 1, every position of [1, L] lies in exactly one of them
\* and no position outside [1, L] lies in any.
C1_TilesExactly ==
    pc = "intervals_done" =>
        \A k \in Targets :
            LET s == PrintedFor(ref[k].name)
                L == ref[k].length
            IN /\ Len(s) >= 1
               /\ s[1].start = 1
               /\ s[Len(s)].end = L
               /\ \A j \in 1..(Len(s) - 1) : s[j + 1].start = s[j].end + 1
               /\ \A p \in 1..L :
                      Cardinality({j \in 1..Len(s) : s[j].start <= p /\ p <= s[j].end}) = 1
               /\ \A p \in {0} \cup ((L + 1)..(L + size + 1)) :
                      \A j \in 1..Len(s) : ~(s[j].start <= p /\ p <= s[j].end)

\* C1 witness: a target whose length is an exact multiple of the chunk size,
\* with at least two chunks, has been printed.
C1_Witness ==
    /\ pc = "intervals_done"
    /\ \E k \in Targets :
          /\ ref[k].length = 2 * size
          /\ Len(PrintedFor(ref[k].name)) >= 2

\* C2: for a target of length L and chunk size C exactly ceil(L/C) intervals
\* are printed and the i-th (from 0) is [i*C+1, min((i+1)*C, L)].
C2_CeilCountAndShape ==
    pc = "intervals_done" =>
        \A k \in Targets :
            LET s == PrintedFor(ref[k].name)
                L == ref[k].length
            IN /\ IsCeil(Len(s), L, size)
               /\ \A j \in 1..Len(s) :
                      /\ s[j].start = ((j - 1) * size) + 1
                      /\ s[j].end = IF j * size <= L THEN j * size ELSE L

\* C3: every printed interval of a target of length L has 1 <= start <= end <= L.
C3_IntervalsWellFormed ==
    pc = "intervals_done" =>
        \A k \in Targets :
            LET s == PrintedFor(ref[k].name)
            IN \A j \in 1..Len(s) :
                  /\ 1 <= s[j].start
                  /\ s[j].start <= s[j].end
                  /\ s[j].end <= ref[k].length

----------------------------------------------------------------------------
(* Claims about split_interval (SpecSplit) *)

\* C4: for S <= E and num_splits >= 1 the pieces are contiguous, the first
\* starts at S, the last ends at E, and there are between 1 and num_splits.
C4_SplitContiguousCover ==
    (pc = "split_done" /\ interval.start <= interval.end) =>
        /\ Len(printed) >= 1
        /\ Len(printed) <= num_splits
        /\ printed[1].start = interval.start
        /\ printed[Len(printed)].end = interval.end
        /\ \A j \in 1..(Len(printed) - 1) : printed[j + 1].start = printed[j].end + 1
        /\ \A j \in 1..Len(printed) : printed[j].name = interval.chrom

\* C4 witness: chr2:1-100 split in 3 printed chr2:1-34, chr2:35-68, chr2:69-100.
C4_Witness ==
    /\ pc = "split_done"
    /\ interval = [chrom |-> "chr2", start |-> 1, end |-> 100]
    /\ num_splits = 3
    /\ printed = <<[name |-> "chr2", start |-> 1, end |-> 34],
                   [name |-> "chr2", start |-> 35, end |-> 68],
                   [name |-> "chr2", start |-> 69, end |-> 100]>>

\* number of positions of a piece
Positions(iv) == iv.end - iv.start + 1

\* num_splits - 1 pieces of the nominal length already reach E
SmallerThanChunks(nominal) ==
    (num_splits - 1) * nominal >= Positions(interval)

\* C5 as stated: every piece but the last has ceil((E-S)/num_splits)
\* positions, the last ends at E, no earlier piece reaches E, and an interval
\* smaller than num_splits chunks gives fewer than num_splits pieces.
C5_Original ==
    (pc = "split_done" /\ interval.start <= interval.end) =>
        /\ \A j \in 1..(Len(printed) - 1) :
              /\ IsCeil(Positions(printed[j]), interval.end - interval.start, num_splits)
              /\ printed[j].end < interval.end
        /\ printed[Len(printed)].end = interval.end
        /\ \A c \in 0..MaxEnd :
              (IsCeil(c, interval.end - interval.start, num_splits) /\ SmallerThanChunks(c))
                  => Len(printed) < num_splits

\* C5 amended: every piece but the last has ceil((E-S)/num_splits) + 1
\* positions (end - start is the ceiling), the last ends at E, no earlier
\* piece reaches E, and when num_splits - 1 pieces of that size already reach
\* E fewer than num_splits pieces are printed.
C5_Amended ==
    (pc = "split_done" /\ interval.start <= interval.end) =>
        /\ \A j \in 1..(Len(printed) - 1) :
              /\ IsCeil(Positions(printed[j]) - 1, interval.end - interval.start, num_splits)
              /\ printed[j].end < interval.end
        /\ printed[Len(printed)].end = interval.end
        /\ Positions(printed[Len(printed)]) >= 1
        /\ \A c \in 0..MaxEnd :
              (IsCeil(c, interval.end - interval.start, num_splits) /\ SmallerThanChunks(c + 1))
                  => Len(printed) < num_splits

\* C5 witness: a split that stopped early, with at least two pieces.
C5_Witness ==
    /\ pc = "split_done"
    /\ interval.start <= interval.end
    /\ Len(printed) >= 2
    /\ Len(printed) < num_splits

----------------------------------------------------------------------------
(* Claims about the cell classifier (SpecClassify) *)

Selectors == {"control", "contaminated", "pass"}

AllReturned == \A g \in Selectors : groups[g].status = "returned"

\* the precondition of the classifier claims: distinct cell ids, as many
\* artifacts as cell ids, and the same cell-id set in the metrics table
WellFormedInput ==
    /\ \A i, j \in 1..Len(cell_ids) : i # j => cell_ids[i] # cell_ids[j]
    /\ Len(infiles) = Len(cell_ids)
    /\ Range(cell_ids) = DOMAIN metrics

\* C6: for distinct cell ids, one artifact per id and equal cell-id sets, the
\* three groups are pairwise disjoint and their union is the full cell-id set.
C6_GroupsPartition ==
    (AllReturned /\ WellFormedInput) =>
        LET ctl == Keys(groups.control.files)
            con == Keys(groups.contaminated.files)
            pas == Keys(groups.pass.files)
        IN /\ ctl \cap con = {}
           /\ ctl \cap pas = {}
           /\ con \cap pas = {}
           /\ ctl \cup con \cup pas = Range(cell_ids)

\* C6 witness: three cells, one in each group.
C6_Witness ==
    /\ AllReturned
    /\ WellFormedInput
    /\ Len(cell_ids) = 3
    /\ \A g \in Selectors : Len(groups[g].files) = 1

\* C7: a cell is in control iff is_control; in contaminated iff not
\* is_control and is_contaminated; in pass iff neither flag is set.
C7_MembershipByFlags ==
    (AllReturned /\ WellFormedInput) =>
        \A c \in Range(cell_ids) :
            /\ c \in Keys(groups.control.files) <=> metrics[c].is_control
            /\ c \in Keys(groups.contaminated.files) <=>
                   (~metrics[c].is_control /\ metrics[c].is_contaminated)
            /\ c \in Keys(groups.pass.files) <=>
                   (~metrics[c].is_control /\ ~metrics[c].is_contaminated)

\* C7 witness: a cell flagged both control and contaminated was classified
\* next to a contaminated cell that is no control.
C7_Witness ==
    /\ AllReturned
    /\ WellFormedInput
    /\ \E c \in Range(cell_ids) :
          /\ metrics[c].is_control /\ metrics[c].is_contaminated
          /\ c \in Keys(groups.control.files)
    /\ groups.contaminated.files # <<>>

\* C8: each selector raises, and returns no group, exactly when the set of
\* artifact cell ids differs from the set of metrics cell ids (in either
\* direction); it returns a group only when the two sets are equal.
C8_RaisesOnSetMismatch ==
    \A g \in Selectors :
        groups[g].status # "not_called" =>
            /\ groups[g].status = "raised" <=> Range(cell_ids) # DOMAIN metrics
            /\ groups[g].status = "raised" =>
                   (groups[g].error = "AssertionError" /\ groups[g].files = <<>>)

\* C8 witness: every artifact cell has a metrics row, one metrics row has no
\* artifact, and all three selectors raised.
C8_Witness ==
    /\ \A g \in Selectors : groups[g].status = "raised"
    /\ Range(cell_ids) \subseteq DOMAIN metrics
    /\ Cardinality(DOMAIN metrics \ Range(cell_ids)) = 1
    /\ Range(cell_ids) # {}

----------------------------------------------------------------------------
(* Claims about the contamination detector (SpecContam) *)

\* organisms with count columns in the table, other than the reference
NonPrimary == {o \in Organisms : CountCol(o) \in DOMAIN table} \ {reference}

\* (mapped - multihit) / total_reads of cell c and organism o exceeds 0.05
RatioExceeds(c, o) ==
    (table[CountCol(o)][c] - table[MultihitCol(o)][c]) * 20 > table[TotalReadsCol][c]

RatioAtThreshold(c, o) ==
    (table[CountCol(o)][c] - table[MultihitCol(o)][c]) * 20 = table[TotalReadsCol][c]

\* C9: a cell (with total_reads > 0) is flagged is_contaminated iff some
\* organism other than the reference has (mapped - multihit) / total_reads
\* strictly above 0.05, whatever the reference's own ratio and whatever the
\* other cells' rows.
C9_FlagIffAltAboveThreshold ==
    contam.status = "returned" =>
        \A c \in ContamCells :
            table[TotalReadsCol][c] > 0 =>
                (contam.is_contaminated[c] <=> \E o \in NonPrimary : RatioExceeds(c, o))

\* C9 witness: one cell has an organism exactly at the threshold, none
\* above, a reference ratio above it, and is not flagged; the other cell is
\* flagged.
C9_Witness ==
    /\ contam.status = "returned"
    /\ \E c \in ContamCells :
          /\ table[TotalReadsCol][c] > 0
          /\ \E o \in NonPrimary : RatioAtThreshold(c, o)
          /\ RatioExceeds(c, reference)
          /\ ~contam.is_contaminated[c]
          /\ \E d \in ContamCells \ {c} :
                table[TotalReadsCol][d] > 0 /\ contam.is_contaminated[d]

----------------------------------------------------------------------------
(* Claims about the group merger (SpecMerge) *)

\* the output artifact holds exactly the template header and no record
HeaderOnlyOutput ==
    /\ margs.outfile \in DOMAIN fs
    /\ fs[margs.outfile] =
          [kind |-> "bam", header |-> margs.empty_bam_content, records |-> <<>>]

\* C10: on an empty group merge_cells writes an output holding exactly the
\* template header and no record, runs neither the concatenation nor the
\* header steps, then indexes and counts that output; the only errors it can
\* end in are those of the index and count steps.
C10_EmptyGroupHeaderOnly ==
    (group = <<>> /\ pc # "merge_cells") =>
        /\ pc \in {"samtools_index", "igvtools_count", "merge_done", "merge_raised"}
        /\ HeaderOnlyOutput
        /\ calls[1] = "pysam_write"
        /\ \A i \in DOMAIN calls :
              calls[i] \notin {"merge_bams", "samtools_view", "picard_reheader"}
        /\ pc = "merge_done" =>
              /\ calls = <<"pysam_write", "samtools_index", "igvtools_count">>
              /\ PathExt(margs.outfile, ".bai") \in DOMAIN fs
              /\ PathExt(margs.outfile, ".tdf") \in DOMAIN fs
        /\ pc = "merge_raised" => failed \in {"samtools_index", "igvtools_count"}

\* C10 witness: a merge of an empty group has completed.
C10_Witness ==
    /\ group = <<>>
    /\ pc = "merge_done"
    /\ HeaderOnlyOutput

----------------------------------------------------------------------------
(* Further claims about generate_intervals (SpecIntervals) *)

RefNames == {ref[k].name : k \in 1..Len(ref)}

\* position of a sequence name in the reference
RefIndex(name) == CHOOSE k \in 1..Len(ref) : ref[k].name = name

\* C14: generate_intervals fails when a requested target name is absent from
\* the reference: it never completes normally with such a name requested.
C14_FailsOnAbsentTarget ==
    pc = "intervals_done" => chromosomes \subseteq RefNames

\* C15: the printed intervals are grouped by sequence in reference order,
\* increasing within a sequence, and only requested reference sequences
\* appear; a reference sequence that is not requested prints nothing and the
\* run completes.
C15_ReferenceOrder ==
    pc = "intervals_done" =>
        /\ \A j \in 1..Len(printed) : printed[j].name \in chromosomes \cap RefNames
        /\ \A k \in 1..Len(ref) :
              ref[k].name \in chromosomes => PrintedFor(ref[k].name) # <<>>
        /\ \A i, j \in 1..Len(printed) :
              i < j =>
                 /\ RefIndex(printed[i].name) <= RefIndex(printed[j].name)
                 /\ printed[i].name = printed[j].name => printed[i].start < printed[j].start

\* C15 witness: two requested sequences were printed, the first in several
\* chunks, in a run whose reference order is chr2 before chr1.
C15_Witness ==
    /\ pc = "intervals_done"
    /\ Len(ref) = 2
    /\ ref[1].name = "chr2"
    /\ chromosomes = {"chr1", "chr2"}
    /\ Len(PrintedFor("chr2")) >= 2
    /\ printed[Len(printed)].name = "chr1"

\* C15 witness of the skipped case: a reference sequence that was not
\* requested stands before a requested one.
C15_SkipWitness ==
    /\ pc = "intervals_done"
    /\ Len(ref) = 2
    /\ ref[1].name \notin chromosomes
    /\ ref[2].name \in chromosomes
    /\ printed # <<>>

----------------------------------------------------------------------------
(* Further claims about the contamination detector (SpecContam) *)

\* C18: add_contamination_status raises exactly when the table has no count
\* columns of the primary reference organism, and then writes neither the
\* augmented table nor its schema sidecar.
C18_RaisesWithoutReference ==
    pc = "contamination_done" =>
        /\ contam.status = "raised" <=> CountCol(reference) \notin DOMAIN table
        /\ contam.status = "raised" =>
              (~contam.csv /\ ~contam.yaml /\ contam.error = "Exception")
        /\ contam.status = "returned" => (contam.csv /\ contam.yaml)

\* C18 witness: the table has columns of other organisms only and the
\* call raised.
C18_Witness ==
    /\ pc = "contamination_done"
    /\ contam.status = "raised"
    /\ CountCol(reference) \notin DOMAIN table
    /\ \E o \in Organisms : CountCol(o) \in DOMAIN table

----------------------------------------------------------------------------
(* Claims about the metadata assembler (SpecMetadata) *)

\* a comes strictly before b in lexicographic order
RECURSIVE LexBefore(_, _)
LexBefore(a, b) ==
    IF b = <<>> THEN FALSE
    ELSE IF a = <<>> THEN TRUE
    ELSE IF Head(a) # Head(b) THEN Head(a) < Head(b)
    ELSE LexBefore(Tail(a), Tail(b))

\* l is in lexicographic order and has no duplicate
StrictlySorted(l) == \A i \in 1..(Len(l) - 1) : LexBefore(l[i], l[i + 1])

\* the rearrangements of a list
Reorderings(l) ==
    {[i \in 1..Len(l) |-> l[f[i]]] :
        f \in {g \in [1..Len(l) -> 1..Len(l)] :
                 \A i, j \in 1..Len(l) : i # j => g[i] # g[j]}}

\* C20: sample_ids, library_ids and cell_ids of the meta block are sorted
\* lexicographically without duplicates and hold exactly the input's
\* identifiers, so every reordering of the input cells gives the same lists.
C20_SortedIdentifierLists ==
    pc = "metadata_done" =>
        /\ StrictlySorted(meta_out.sample_ids)
        /\ StrictlySorted(meta_out.library_ids)
        /\ StrictlySorted(meta_out.cell_ids)
        /\ Range(meta_out.sample_ids) = {meta_cells[i].sample_id : i \in 1..Len(meta_cells)}
        /\ Range(meta_out.library_ids) = {meta_cells[i].library_id : i \in 1..Len(meta_cells)}
        /\ Range(meta_out.cell_ids) = {meta_cells[i].cell_id : i \in 1..Len(meta_cells)}
        /\ \A q \in Reorderings(meta_cells) :
           \A si \in Enumerations(SamplesOf(q)) :
           \A li \in Enumerations(LibrariesOf(q)) : MetaBlock(q, si, li) = meta_out

\* C20 witness: three cells given out of order ("B1", "A2", "A10"), two of
\* them sharing a sample, were written as "A10", "A2", "B1".
C20_Witness ==
    /\ pc = "metadata_done"
    /\ Len(meta_cells) = 3
    /\ meta_cells[1].cell_id = <<66, 49>>
    /\ meta_cells[2].cell_id = <<65, 50>>
    /\ meta_cells[3].cell_id = <<65, 49, 48>>
    /\ meta_cells[1].sample_id = meta_cells[2].sample_id
    /\ meta_cells[1].sample_id # meta_cells[3].sample_id
    /\ meta_out.cell_ids = <<<<65, 49, 48>>, <<65, 50>>, <<66, 49>>>>
    /\ Len(meta_out.sample_ids) = 2

----------------------------------------------------------------------------
(* Further claims about the group merger (SpecMerge) *)

\* path lies inside directory dir
Under(path, dir) == Len(path) > Len(dir) /\ SubSeq(path, 1, Len(dir)) = dir

\* external step i of the merge ran and succeeded
StepOk(name) == \E i \in DOMAIN calls : calls[i] = name /\ exits[i] = "ok"

\* C11: for a non-empty group the header of the merged output is the merged
\* intermediate's header followed by exactly one '@CO CB:<cell_id>' line per
\* cell of the group, and by no other line.
C11_HeaderAnnotatesGroup ==
    (group # <<>> /\ margs.outfile \in DOMAIN fs) =>
        LET header == fs[margs.outfile].header
            n == Len(margs.merged_header)
        IN /\ Len(header) = n + Len(group)
           /\ SubSeq(header, 1, n) = margs.merged_header
           /\ \A c \in Keys(group) :
                 Cardinality({i \in (n + 1)..Len(header) : header[i] = <<"@CO", "CB", c>>}) = 1

\* C12: once merge_cells has returned or failed, no file is left inside its
\* temporary directory.
C12_WorkspaceRemoved ==
    pc \in {"merge_done", "merge_raised"} =>
        \A path \in DOMAIN fs : ~Under(path, margs.tempdir)

\* C13: on a non-empty group an external step that failed is the last step
\* run, and merge_cells ended in its error.
C13_NoSwallowedError ==
    group # <<>> =>
        \A i \in DOMAIN exits :
            exits[i] = "failed" =>
                /\ i = Len(exits)
                /\ pc = "merge_raised"
                /\ failed = calls[i]

\* C19: when the index or count step fails after the output artifact was
\* written, merge_cells ends in that step's error and the output artifact is
\* still there as it was written.
C19_FailedDerivationKeepsOutput ==
    \A step \in {"samtools_index", "igvtools_count"} :
        (/\ calls # <<>>
         /\ calls[Len(calls)] = step
         /\ exits[Len(exits)] = "failed"
         /\ (StepOk("pysam_write") \/ StepOk("picard_reheader"))) =>
            /\ pc = "merge_raised"
            /\ failed = step
            /\ margs.outfile \in DOMAIN fs
            /\ fs[margs.outfile] =
                  IF group = <<>>
                  THEN [kind |-> "bam", header |-> margs.empty_bam_content, records |-> <<>>]
                  ELSE [kind |-> "bam", header |-> fs[NewHeader].header,
                        records |-> fs[FinalMergeOutput].records]

\* C19 witness: the count step failed on a written and indexed output of a
\* non-empty group.
C19_Witness ==
    /\ pc = "merge_raised"
    /\ failed = "igvtools_count"
    /\ group # <<>>
    /\ StepOk("picard_reheader")
    /\ margs.outfile \in DOMAIN fs
    /\ PathExt(margs.outfile, ".bai") \in DOMAIN fs

\* C19 witness for the index step.
C19_IndexWitness ==
    /\ pc = "merge_raised"
    /\ failed = "samtools_index"
    /\ StepOk("picard_reheader")
    /\ margs.outfile \in DOMAIN fs

----------------------------------------------------------------------------
(* Claims about the pipeline (SpecBams) *)

\* the order of cell identities
CellRank(c) == CASE c = "A" -> 1 [] c = "B" -> 2 [] c = "C" -> 3

\* the cells of the '@CO CB:<cell>' lines of a header, in header order
AnnotatedCells(header) ==
    LET IsAnnotation(line) == line[1] = "@CO"
        lines == SelectSeq(header, IsAnnotation)
    IN [i \in DOMAIN lines |-> lines[i][3]]

Ascending(cells) ==
    \A i, j \in DOMAIN cells : i < j => CellRank(cells[i]) < CellRank(cells[j])

\* the files of the group being merged, when they exist
MergedIntermediate == <<"tmp", stage, "merged_all.bam">>
HeaderFile == <<"tmp", stage, "header.sam">>

\* C16: the artifacts handed to the concatenation step and the annotation
\* lines of the new header are in the order of their cell identities, whatever
\* the order in which cells and artifacts were supplied to generate_bams.
C16_CanonicalMergeOrder ==
    stage # "none" =>
        /\ MergedIntermediate \in DOMAIN fs =>
              LET records == fs[MergedIntermediate].records
              IN Ascending([i \in DOMAIN records |-> records[i][2]])
        /\ (HeaderFile \in DOMAIN fs /\ StepOk("samtools_view")) =>
              Ascending(AnnotatedCells(fs[HeaderFile].header))

\* the (cell, artifact) pairs supplied, in the supplied order, whose flags
\* put them in group st
SuppliedFor(st) ==
    LET pairs == [i \in DOMAIN cell_ids |-> [cell |-> cell_ids[i], infile |-> infiles[i]]]
        InGroup(p) ==
            CASE st = "control" -> metrics[p.cell].is_control
              [] st = "contaminated" ->
                    ~metrics[p.cell].is_control /\ metrics[p.cell].is_contaminated
              [] st = "pass" ->
                    ~metrics[p.cell].is_control /\ ~metrics[p.cell].is_contaminated
    IN SelectSeq(pairs, InGroup)

\* the paths a run writes for group st
GroupPaths(st) ==
    LET out == CASE st = "control" -> <<"control.bam">>
                 [] st = "contaminated" -> <<"contaminated.bam">>
                 [] st = "pass" -> <<"pass.bam">>
    IN {<<"tmp", st>>, <<"tmp", st, "merged_all.bam">>, <<"tmp", st, "header.sam">>,
        out, out \o <<".bai">>, out \o <<".tdf">>}

StageNames == {"control", "contaminated", "pass"}

\* the workspace of group st, and the paths at or inside it
WorkspaceOf(st) == <<"tmp", st>>
Within(path, dir) == Len(path) >= Len(dir) /\ SubSeq(path, 1, Len(dir)) = dir

\* C21: the three merges work in three distinct directories named after their
\* groups under the run's tempdir; while a group is merged its intermediates
\* are read and written inside its own directory, and nothing at or inside
\* another group's directory is created, changed or removed.
C21_WorkspacesExclusive ==
    [][/\ pc \in {"merge_cells", "get_new_header", "reheader"} =>
             /\ stage \in StageNames
             /\ margs.tempdir = WorkspaceOf(stage)
             /\ Within(FinalMergeOutput, WorkspaceOf(stage))
             /\ Within(NewHeader, WorkspaceOf(stage))
       /\ \A other \in StageNames \ {stage} :
             \A path \in DOMAIN fs \cup DOMAIN fs' :
                 Within(path, WorkspaceOf(other)) =>
                     /\ path \in DOMAIN fs
                     /\ path \in DOMAIN fs'
                     /\ fs'[path] = fs[path]
       /\ pc' = "bams_done" =>
             Cardinality({path \in DOMAIN fs' : fs'[path].kind = "dir"}) = 3]_ivars

\* C21 witness: a run ended in which two groups were merged, each with its
\* intermediates in its own directory.
C21_Witness ==
    /\ pc = "bams_done"
    /\ \E a, b \in StageNames :
          /\ a # b
          /\ <<"tmp", a, "merged_all.bam">> \in DOMAIN fs
          /\ <<"tmp", a, "header.sam">> \in DOMAIN fs
          /\ <<"tmp", b, "merged_all.bam">> \in DOMAIN fs
          /\ <<"tmp", b, "header.sam">> \in DOMAIN fs

\* the output artifact of group st with its index and its count summary
OutputsOf(st) ==
    LET out == CASE st = "control" -> <<"control.bam">>
                 [] st = "contaminated" -> <<"contaminated.bam">>
                 [] st = "pass" -> <<"pass.bam">>
    IN {out, out \o <<".bai">>, out \o <<".tdf">>}

\* C22: a run that ended successfully has, for each of the three groups, the
\* output artifact, its index and its count summary; the index step runs
\* right after a step that wrote the output, and the count step right after
\* the index step succeeded.
C22_GroupsCompleteInOrder ==
    /\ pc = "bams_done" =>
          \A st \in {"control", "contaminated", "pass"} : OutputsOf(st) \subseteq DOMAIN fs
    /\ \A i \in DOMAIN calls :
          /\ calls[i] = "samtools_index" =>
                /\ i > 1
                /\ calls[i - 1] \in {"pysam_write", "picard_reheader"}
                /\ exits[i - 1] = "ok"
          /\ calls[i] = "igvtools_count" =>
                /\ i > 1
                /\ calls[i - 1] = "samtools_index"
                /\ exits[i - 1] = "ok"

----------------------------------------------------------------------------
(* Claims about input_validation (SpecValidate) *)

\* every cell carries every required field, so the sample check is reached
SampleCheckReached == \A k \in DOMAIN meta_data.cells : meta_data.cells[k].absent = "none"

\* two cells that are not controls carry different sample ids
TwoNonControlSamples ==
    \E a, b \in DOMAIN meta_data.cells :
        /\ ~meta_data.cells[a].is_control
        /\ ~meta_data.cells[b].is_control
        /\ meta_data.cells[a].sample_id # meta_data.cells[b].sample_id

\* C23: when the sample check is reached, input_validation raises
\* MultipleSamplesPerRun exactly when the cells that are not controls carry
\* two or more distinct sample ids; with one such sample id or none, and
\* whatever the sample ids of the control cells, it does not.
C23_RaisesIffTwoNonControlSamples ==
    (pc = "validation_done" /\ SampleCheckReached) =>
        /\ validation.error = "MultipleSamplesPerRun" <=> TwoNonControlSamples
        /\ TwoNonControlSamples => validation.status = "raised"

\* C23 witness: two cells that are not controls, with different sample ids,
\* and the check raised.
C23_Witness ==
    /\ pc = "validation_done"
    /\ SampleCheckReached
    /\ TwoNonControlSamples
    /\ validation = [status |-> "raised", error |-> "MultipleSamplesPerRun"]

\* C23 witness: a control cell with another sample id than the one cell that
\* is not a control, and the validation returned.
C23_ControlWitness ==
    /\ pc = "validation_done"
    /\ validation.status = "returned"
    /\ \E a, b \in DOMAIN meta_data.cells :
          /\ meta_data.cells[a].is_control
          /\ ~meta_data.cells[b].is_control
          /\ meta_data.cells[a].sample_id # meta_data.cells[b].sample_id

\* C23 witness: every cell is a control, with two sample ids among them, and
\* the validation returned.
C23_AllControlWitness ==
    /\ pc = "validation_done"
    /\ validation.status = "returned"
    /\ \A k \in DOMAIN meta_data.cells : meta_data.cells[k].is_control
    /\ Cardinality({meta_data.cells[k].sample_id : k \in DOMAIN meta_data.cells}) = 2

====
